---- MODULE Spec2Model ----
(***************************************************************************)
(* A model of MathFinder's server/setup.py: the module-level statements of *)
(* the script, the helper read(), and the one call of                *)
(* setuptools.setup() with the keyword arguments the script builds.        *)
(*                                                                         *)
(* Python strings are sequences of one-character strings, so that the      *)
(* f-string of line 30 is a real concatenation and an entry-point string   *)
(* can be taken apart again.  File-system paths are sequences of path      *)
(* components; an absolute path starts with the component "/".  The bytes  *)
(* of a file and the code points of the text read from it are numbers.     *)
(***************************************************************************)
EXTENDS Integers, Sequences, FiniteSets, TLC

VARIABLES
    pc,          \* the statement the interpreter executes next
    globals,     \* the module namespace of setup.py: name -> value
    scriptDir,   \* environment: the directory that really holds setup.py
    cwd,         \* environment: the process's current working directory
    file,        \* __file__, as the interpreter was given it
    encoding,    \* environment: the locale's preferred encoding
    parts,       \* read(): the argument tuple parts
    fp,          \* read(): the file object bound by "with ... as fp"
    opened,      \* the paths given to the operating system to open, resolved
    ret,         \* read(): the value returned
    exc,         \* the exception that is propagating, "none" if none
    setupCalls   \* the keyword arguments of every setup() call made

vars == <<pc, globals, scriptDir, cwd, file, encoding, parts, fp, opened,
          ret, exc, setupCalls>>

env == <<scriptDir, cwd, file, encoding>>

(***************************************************************************)
(* Bounds of the model.                                                    *)
(***************************************************************************)
MaxContentLen == 2

(***************************************************************************)
(* The string literals of the script.                                      *)
(***************************************************************************)
EntrypointLiteral == <<"m","a","t","h","f","i","n","d","e","r">>

DescriptionLiteral ==
    <<"H","T","T","P"," ","I","n","t","e","r","f","a","c","e"," ","f","o","r",
      " ","M","a","t","h","F","i","n","d","e","r">>

InstallRequiresWithDuplicate ==
    << <<"t","o","r","n","a","d","o">>,
       <<"c","o","n","n","e","x","i","o","n">>,
       <<"t","o","r","n","a","d","o">> >>

InstallRequires ==
    << <<"t","o","r","n","a","d","o">>,
       <<"c","o","n","n","e","x","i","o","n">>,
       <<"s","w","a","g","g","e","r","-","u","i","-","b","u","n","d","l","e">> >>

PackageDataPatterns ==
    << <<"o","p","e","n","a","p","i","/","*",".","y","a","m","l">> >>

LicenseLiteral == <<"T","B","D">>

Classifiers ==
    << <<"D","e","v","e","l","o","p","m","e","n","t"," ","S","t","a","t","u",
         "s"," ",":",":"," ","3"," ","-"," ","A","l","p","h","a">>,
       <<"I","n","t","e","n","d","e","d"," ","A","u","d","i","e","n","c","e",
         " ",":",":"," ","D","e","v","e","l","o","p","e","r","s">>,
       <<"P","r","o","g","r","a","m","m","i","n","g"," ","L","a","n","g","u",
         "a","g","e"," ",":",":"," ","P","y","t","h","o","n">> >>

ReadmeParts == << <<"README.md">> >>

(***************************************************************************)
(* os.path, on component sequences.                                        *)
(***************************************************************************)
IsAbs(p) == Len(p) > 0 /\ p[1] = "/"

\* os.path.dirname: everything before the last separator.
Dirname(p) ==
    IF Len(p) = 0 THEN <<>>
    ELSE IF IsAbs(p) /\ Len(p) <= 2 THEN <<"/">>
    ELSE SubSeq(p, 1, Len(p) - 1)

\* os.path.join: an absolute component discards everything before it.
RECURSIVE Join(_, _)
Join(base, ps) ==
    IF ps = <<>> THEN base
    ELSE Join(IF IsAbs(Head(ps)) THEN Head(ps) ELSE base \o Head(ps), Tail(ps))

\* os.path.normpath: "." is dropped, ".." removes the component before it
\* (never the root, and a leading ".." of a relative path stays).
RECURSIVE Norm(_, _)
Norm(acc, rest) ==
    IF rest = <<>> THEN acc
    ELSE IF Head(rest) = "." THEN Norm(acc, Tail(rest))
    ELSE IF Head(rest) = ".."
        THEN IF acc = <<"/">> THEN Norm(acc, Tail(rest))
             ELSE IF acc = <<>> \/ acc[Len(acc)] = ".."
                 THEN Norm(Append(acc, ".."), Tail(rest))
             ELSE Norm(SubSeq(acc, 1, Len(acc) - 1), Tail(rest))
    ELSE Norm(Append(acc, Head(rest)), Tail(rest))

Normpath(p) == Norm(<<>>, p)

\* os.path.abspath(p) is normpath(join(os.getcwd(), p)).
Abspath(dir, p) == Normpath(Join(dir, <<p>>))

\* The file the operating system reaches for a path given to open():
\* a relative path is resolved against the current working directory.
OsResolve(dir, p) == Normpath(IF IsAbs(p) THEN p ELSE dir \o p)

(***************************************************************************)
(* The environment the script may be run in.                               *)
(***************************************************************************)
Dirs == { <<"/", "proj">>, <<"/", "proj", "server">>, <<"/", "home">> }

\* How the interpreter may name the script: python setup.py,
\* python ./setup.py, python server/setup.py, python ../setup.py, or with
\* an absolute path (which is also what Python 3.9 and later store).
FileArgs ==
    { <<"setup.py">>, <<".", "setup.py">>, <<"server", "setup.py">>,
      <<"..", "setup.py">> }
    \cup { d \o <<"setup.py">> : d \in Dirs }

Encodings == { "utf-8", "latin-1" }

Bytes == { 10, 13, 97, 255 }

RECURSIVE SeqsUpTo(_, _)
SeqsUpTo(S, n) ==
    IF n = 0 THEN { <<>> }
    ELSE LET shorter == SeqsUpTo(S, n - 1)
         IN  shorter \cup { Append(s, x) : s \in shorter, x \in S }

Contents == SeqsUpTo(Bytes, MaxContentLen)

\* What open() may find at a path: no file, a file the process may not
\* read, or a file with some bytes.
FileStates ==
    { [kind |-> "missing", bytes |-> <<>>], [kind |-> "denied", bytes |-> <<>>] }
    \cup { [kind |-> "file", bytes |-> b] : b \in Contents }

\* What find_packages() may return: it depends on the directory tree.
PackageLists == { <<>>, << EntrypointLiteral >> }

\* The argument tuples read() is applied to when it is examined on its own.
PartsSet ==
    { << <<"README.md">> >>,
      << <<"docs">>, <<"README.md">> >>,
      << <<"docs", "api">>, <<"index.md">> >>,
      << <<"..">>, <<"README.md">> >> }

(***************************************************************************)
(* Text-mode reading.  codecs.open(path, 'r') without an encoding is the   *)
(* built-in open(path, 'r'): the bytes are decoded with the locale's       *)
(* encoding and every line ending is translated to "\n".                   *)
(***************************************************************************)
\* Of the bytes of the model only 255 is no valid UTF-8; latin-1 maps each
\* byte to the code point of the same number.
Decodable(bytes, enc) ==
    enc = "latin-1" \/ \A i \in DOMAIN bytes : bytes[i] < 128

Decode(bytes, enc) == [i \in DOMAIN bytes |-> bytes[i]]

RECURSIVE TranslateNewlines(_)
TranslateNewlines(s) ==
    IF s = <<>> THEN <<>>
    ELSE IF Head(s) = 13
        THEN IF Len(s) > 1 /\ s[2] = 10
             THEN <<10>> \o TranslateNewlines(Tail(Tail(s)))
             ELSE <<10>> \o TranslateNewlines(Tail(s))
    ELSE <<Head(s)>> \o TranslateNewlines(Tail(s))

TextOf(bytes, enc) == TranslateNewlines(Decode(bytes, enc))

NoFile == [state |-> "unbound", path |-> <<>>, bytes |-> <<>>, pos |-> 0]

\* fp.read(): everything from the position of the file object to its end.
FpRead(f, enc) == TextOf(SubSeq(f.bytes, f.pos + 1, Len(f.bytes)), enc)

(***************************************************************************)
(* The expressions of the script.                                          *)
(***************************************************************************)
\* line 8 with a literal of its own instead of the name entrypoint
PkgNameOwnLiteral(g) == <<"m","a","t","h","f","i","n","d","e","r","-","s","e","r","v","e","r">>

\* line 8: pkg_name = entrypoint
PkgNameValue(g) == g["entrypoint"]

\* line 11: here = os.path.abspath(os.path.dirname(__file__))
Here(dir, f) == Abspath(dir, Dirname(f))

\* line 15 without the directory of the script
ReadPathRelative(g, ps) == Join(<<>>, ps)

\* line 15: os.path.join(here, parts...)
ReadPath(g, ps) == Join(g["here"], ps)

\* line 30 with the module path of the target written without the package
ConsoleScriptBareModule(ep, pkg) ==
    ep \o <<" ", "=", " ">> \o <<"s","e","r","v","e","r",":","m","a","i","n">>

\* line 30: f'{entrypoint} = {pkg_name}.server:main'
ConsoleScript(ep, pkg) ==
    ep \o <<" ", "=", " ">> \o pkg
       \o <<".","s","e","r","v","e","r",":","m","a","i","n">>

\* lines 28-32 with a second console script
EntryPointsTwo(g) ==
    [console_scripts |->
        << ConsoleScript(g["entrypoint"], g["pkg_name"]),
           ConsoleScript(g["pkg_name"] \o <<"-","d","e","v">>, g["pkg_name"]) >>]

\* lines 28-32: entry_points={'console_scripts': [...]}
EntryPoints(g) ==
    [console_scripts |-> << ConsoleScript(g["entrypoint"], g["pkg_name"]) >>]

\* lines 33-35 with a second pattern
PackageDataTwoPatterns(g) ==
    [k \in {g["pkg_name"]} |->
        PackageDataPatterns \o << <<"*",".","j","s","o","n">> >>]

\* lines 33-35: package_data={pkg_name: ['openapi/*.yaml']}
PackageData(g) == [k \in {g["pkg_name"]} |-> PackageDataPatterns]

\* lines 21-47: the keyword arguments of setup()
SetupKwargs(g, pkgs) ==
    [name             |-> g["pkg_name"],
     install_requires |-> InstallRequires,
     entry_points     |-> EntryPoints(g),
     package_data     |-> PackageData(g),
     packages         |-> pkgs,
     url              |-> <<>>,
     license          |-> LicenseLiteral,
     description      |-> g["description"],
     long_description |-> g["long_description"],
     zip_safe         |-> TRUE,
     classifiers      |-> Classifiers]

(***************************************************************************)
(* The state when the interpreter starts the script.                       *)
(***************************************************************************)
EnvInit ==
    /\ scriptDir \in Dirs
    /\ cwd \in Dirs
    /\ file \in FileArgs
    /\ OsResolve(cwd, file) = scriptDir \o <<"setup.py">>
    /\ encoding \in Encodings

Init ==
    /\ EnvInit
    /\ pc = "l7"
    /\ globals = <<>>
    /\ parts = <<>>
    /\ fp = NoFile
    /\ opened = <<>>
    /\ ret = <<>>
    /\ exc = "none"
    /\ setupCalls = <<>>

(***************************************************************************)
(* The statements of the script.                                           *)
(***************************************************************************)
Bind(g, name, value) == [n \in DOMAIN g \cup {name} |-> IF n = name THEN value ELSE g[n]]

\* line 7
AssignEntrypoint ==
    /\ pc = "l7"
    /\ globals' = Bind(globals, "entrypoint", EntrypointLiteral)
    /\ pc' = "l8"
    /\ UNCHANGED <<env, parts, fp, opened, ret, exc, setupCalls>>

\* line 8
AssignPkgName ==
    /\ pc = "l8"
    /\ globals' = Bind(globals, "pkg_name", PkgNameValue(globals))
    /\ pc' = "l9"
    /\ UNCHANGED <<env, parts, fp, opened, ret, exc, setupCalls>>

\* line 9
AssignDescription ==
    /\ pc = "l9"
    /\ globals' = Bind(globals, "description", DescriptionLiteral)
    /\ pc' = "l11"
    /\ UNCHANGED <<env, parts, fp, opened, ret, exc, setupCalls>>

\* line 11
AssignHere ==
    /\ pc = "l11"
    /\ globals' = Bind(globals, "here", Here(cwd, file))
    /\ pc' = "l19"
    /\ UNCHANGED <<env, parts, fp, opened, ret, exc, setupCalls>>

\* line 19, the call: read('README.md')
CallRead ==
    /\ pc = "l19"
    /\ parts' = ReadmeParts
    /\ pc' = "l15"
    /\ UNCHANGED <<env, globals, fp, opened, ret, exc, setupCalls>>

\* line 15 inside a try block whose handler makes read() return ''
ReadOpenSwallow ==
    /\ pc = "l15"
    /\ \E st \in FileStates :
        LET path == OsResolve(cwd, ReadPath(globals, parts))
        IN  /\ opened' = Append(opened, path)
            /\ \/ /\ st.kind = "file"
                  /\ fp' = [state |-> "open", path |-> path,
                            bytes |-> st.bytes, pos |-> 0]
                  /\ ret' = ret
                  /\ pc' = "l16"
               \/ /\ st.kind \in {"missing", "denied"}
                  /\ fp' = fp
                  /\ ret' = <<>>
                  /\ pc' = "l19_ret"
    /\ UNCHANGED <<env, globals, parts, exc, setupCalls>>

\* line 15: codecs.open(os.path.join(here, parts...), 'r') and the entry of
\* the with block.  A failing open raises out of read() and, nothing
\* catching it, out of the script.
ReadOpen ==
    /\ pc = "l15"
    /\ \E st \in FileStates :
        LET path == OsResolve(cwd, ReadPath(globals, parts))
        IN  /\ opened' = Append(opened, path)
            /\ \/ /\ st.kind = "file"
                  /\ fp' = [state |-> "open", path |-> path,
                            bytes |-> st.bytes, pos |-> 0]
                  /\ exc' = "none"
                  /\ pc' = "l16"
               \/ /\ st.kind = "missing"
                  /\ fp' = fp
                  /\ exc' = "FileNotFoundError"
                  /\ pc' = "raised"
               \/ /\ st.kind = "denied"
                  /\ fp' = fp
                  /\ exc' = "PermissionError"
                  /\ pc' = "raised"
    /\ UNCHANGED <<env, globals, parts, ret, setupCalls>>

\* line 16: return fp.read().  The value is computed inside the with block,
\* whose exit runs before read() returns; bytes the encoding cannot decode
\* raise instead.
ReadBody ==
    /\ pc = "l16"
    /\ \/ /\ Decodable(fp.bytes, encoding)
          /\ ret' = FpRead(fp, encoding)
          /\ fp' = [fp EXCEPT !.pos = Len(fp.bytes)]
          /\ exc' = "none"
       \/ /\ ~Decodable(fp.bytes, encoding)
          /\ ret' = ret
          /\ fp' = fp
          /\ exc' = "UnicodeDecodeError"
    /\ pc' = "l15_exit"
    /\ UNCHANGED <<env, globals, parts, opened, setupCalls>>

\* line 15, the exit of the with block: the file is closed, then the
\* return or the exception goes on.
WithExit ==
    /\ pc = "l15_exit"
    /\ fp' = [fp EXCEPT !.state = "closed"]
    /\ pc' = IF exc = "none" THEN "l19_ret" ELSE "raised"
    /\ UNCHANGED <<env, globals, parts, opened, ret, exc, setupCalls>>

\* line 19, the assignment: long_description = <the value returned>
AssignLongDescription ==
    /\ pc = "l19_ret"
    /\ globals' = Bind(globals, "long_description", ret)
    /\ pc' = "l21"
    /\ UNCHANGED <<env, parts, fp, opened, ret, exc, setupCalls>>

\* lines 21-47: setup(...)
CallSetup ==
    /\ pc = "l21"
    /\ \E pkgs \in PackageLists :
        setupCalls' = Append(setupCalls, SetupKwargs(globals, pkgs))
    /\ pc' = "done"
    /\ UNCHANGED <<env, globals, parts, fp, opened, ret, exc>>

Next ==
    \/ AssignEntrypoint
    \/ AssignPkgName
    \/ AssignDescription
    \/ AssignHere
    \/ CallRead
    \/ ReadOpen
    \/ ReadBody
    \/ WithExit
    \/ AssignLongDescription
    \/ CallSetup

Spec == Init /\ [][Next]_vars

(***************************************************************************)
(* read() on its own: the module has been executed up to line 11     *)
(* and read is applied to some tuple of relative parts.                    *)
(***************************************************************************)
InitRead ==
    /\ EnvInit
    /\ pc = "l15"
    /\ globals = Bind(Bind(Bind(Bind(<<>>,
                    "entrypoint", EntrypointLiteral),
                    "pkg_name", EntrypointLiteral),
                    "description", DescriptionLiteral),
                    "here", Here(cwd, file))
    /\ parts \in PartsSet
    /\ fp = NoFile
    /\ opened = <<>>
    /\ ret = <<>>
    /\ exc = "none"
    /\ setupCalls = <<>>

NextRead ==
    \/ ReadOpen
    \/ ReadBody
    \/ WithExit

SpecRead == InitRead /\ [][NextRead]_vars

(***************************************************************************)
(* Taking an entry-point string "name = module:attr" apart.                *)
(***************************************************************************)
\* The least position at which sub occurs in s, 0 if it does not occur.
IndexOf(s, sub) ==
    LET hits == { i \in 1..(Len(s) - Len(sub) + 1) :
                    SubSeq(s, i, i + Len(sub) - 1) = sub }
    IN  IF hits = {} THEN 0 ELSE CHOOSE i \in hits : \A j \in hits : i <= j

Before(s, sub) == SubSeq(s, 1, IndexOf(s, sub) - 1)

After(s, sub) == SubSeq(s, IndexOf(s, sub) + Len(sub), Len(s))

CommandName(entry) == Before(entry, <<" ", "=", " ">>)

Target(entry) == After(entry, <<" ", "=", " ">>)

TargetModule(entry) == Before(Target(entry), <<":">>)

TargetAttr(entry) == After(Target(entry), <<":">>)

FirstComponent(module) ==
    IF IndexOf(module, <<".">>) = 0 THEN module ELSE Before(module, <<".">>)

ConsoleScripts(c) == c.entry_points.console_scripts

RECURSIVE Flatten(_)
Flatten(ps) == IF ps = <<>> THEN <<>> ELSE Head(ps) \o Flatten(Tail(ps))

SetupCalled == setupCalls # <<>>

(***************************************************************************)
(* Properties.                                                             *)
(***************************************************************************)
\* C1: setup() registers exactly one console_scripts entry point, the text
\* left of " = " in it is "mathfinder", and nothing else is registered as a
\* console command (and setup() is called once).
OneConsoleCommand ==
    /\ Len(setupCalls) <= 1
    /\ pc = "done" => Len(setupCalls) = 1
    /\ \A i \in DOMAIN setupCalls :
        /\ DOMAIN setupCalls[i].entry_points = {"console_scripts"}
        /\ Len(ConsoleScripts(setupCalls[i])) = 1
        /\ IndexOf(ConsoleScripts(setupCalls[i])[1], <<" ", "=", " ">>) > 0
        /\ CommandName(ConsoleScripts(setupCalls[i])[1])
              = <<"m","a","t","h","f","i","n","d","e","r">>

OneConsoleCommandWitness ==
    /\ pc = "done"
    /\ Len(setupCalls) = 1
    /\ Len(ConsoleScripts(setupCalls[1])) = 1

\* C2: the registered entry string is exactly
\* "mathfinder = mathfinder.server:main": the target is the callable main of
\* the module mathfinder.server.
EntryTargetsServerMain ==
    \A i \in DOMAIN setupCalls :
        /\ ConsoleScripts(setupCalls[i])[1]
              = <<"m","a","t","h","f","i","n","d","e","r"," ","="," ",
                  "m","a","t","h","f","i","n","d","e","r",".",
                  "s","e","r","v","e","r",":","m","a","i","n">>
        /\ TargetModule(ConsoleScripts(setupCalls[i])[1])
              = <<"m","a","t","h","f","i","n","d","e","r",".",
                  "s","e","r","v","e","r">>
        /\ TargetAttr(ConsoleScripts(setupCalls[i])[1]) = <<"m","a","i","n">>

EntryTargetsServerMainWitness ==
    /\ SetupCalled
    /\ Len(Target(ConsoleScripts(setupCalls[1])[1])) = 22

\* C3: package_data has exactly one key, the package "mathfinder", and its
\* pattern list is exactly ["openapi/*.yaml"].
PackageDataIsOpenapiYaml ==
    \A i \in DOMAIN setupCalls :
        /\ DOMAIN setupCalls[i].package_data
              = { <<"m","a","t","h","f","i","n","d","e","r">> }
        /\ setupCalls[i].package_data[<<"m","a","t","h","f","i","n","d","e","r">>]
              = << <<"o","p","e","n","a","p","i","/","*",".","y","a","m","l">> >>

PackageDataIsOpenapiYamlWitness ==
    /\ SetupCalled
    /\ Cardinality(DOMAIN setupCalls[1].package_data) = 1
    /\ setupCalls[1].packages = << <<"m","a","t","h","f","i","n","d","e","r">> >>

\* C4: install_requires holds exactly the three dependencies tornado,
\* connexion and swagger-ui-bundle, none of them twice and nothing else.
ThreeDependencies ==
    \A i \in DOMAIN setupCalls :
        LET deps == setupCalls[i].install_requires
        IN  /\ Len(deps) = 3
            /\ { deps[k] : k \in DOMAIN deps }
                  = { <<"t","o","r","n","a","d","o">>,
                      <<"c","o","n","n","e","x","i","o","n">>,
                      <<"s","w","a","g","g","e","r","-","u","i","-",
                        "b","u","n","d","l","e">> }
            /\ \A k, l \in DOMAIN deps : deps[k] = deps[l] => k = l

ThreeDependenciesWitness ==
    /\ SetupCalled
    /\ Len(setupCalls[1].install_requires) = 3

\* C5: README.md is read before setup() is called.  A failing read
\* propagates and setup() is never called; setup() is called only after a
\* read that succeeded, and its long_description is then the whole text of
\* the file.
ReadBeforeSetup ==
    /\ exc # "none" => ~SetupCalled
    /\ pc = "raised" => exc # "none" /\ ~SetupCalled
    /\ SetupCalled =>
        /\ Len(opened) = 1
        /\ opened[1] = scriptDir \o <<"README.md">>
        /\ fp.state = "closed"
        /\ fp.path = opened[1]
        /\ Decodable(fp.bytes, encoding)
        /\ exc = "none"
        /\ \A i \in DOMAIN setupCalls :
            setupCalls[i].long_description = TextOf(fp.bytes, encoding)

ReadBeforeSetupWitness ==
    /\ pc = "raised"
    /\ exc = "FileNotFoundError"
    /\ Len(opened) = 1
    /\ ~SetupCalled

\* C6: the distribution name, the console command name, the package_data
\* key and the first component of the entry point's module path are one
\* and the same string.
NamesAgree ==
    \A i \in DOMAIN setupCalls :
        LET c == setupCalls[i]
            e == ConsoleScripts(c)[1]
        IN  /\ CommandName(e) = c.name
            /\ DOMAIN c.package_data = {c.name}
            /\ FirstComponent(TargetModule(e)) = c.name

NamesAgreeWitness ==
    /\ SetupCalled
    /\ setupCalls[1].name = <<"m","a","t","h","f","i","n","d","e","r">>
    /\ Len(TargetModule(ConsoleScripts(setupCalls[1])[1])) > Len(setupCalls[1].name)

\* C7: read() opens the file at the directory of setup.py joined with the
\* relative parts, whatever the current working directory is; it returns
\* the whole content; the file is closed when read() returns or raises.
ReadOpensBesideScript ==
    /\ Len(opened) <= 1
    /\ \A i \in DOMAIN opened :
        opened[i] = Normpath(scriptDir \o Flatten(parts))
    /\ pc \in {"l16", "l15_exit"} => fp.state = "open" /\ fp.path = opened[1]
    /\ pc = "l19_ret" =>
        /\ exc = "none"
        /\ fp.state = "closed"
        /\ ret = TextOf(fp.bytes, encoding)
    /\ pc = "raised" => exc # "none" /\ fp.state # "open"

ReadOpensBesideScriptWitness ==
    /\ pc = "l19_ret"
    /\ cwd # scriptDir
    /\ ~IsAbs(file)
    /\ Len(parts) = 2
    /\ Len(ret) = 2
    /\ fp.state = "closed"

====
